---- MODULE Spec2Model ----
(***************************************************************************)
(* A model of flows-file-manager (src/index.js): the conversion of a       *)
(* Node-RED flow set between its monolith form and its tree of files.      *)
(*                                                                         *)
(* JavaScript strings are sequences of one-character strings, so that      *)
(* replacement, concatenation, case folding and comparison are computed.   *)
(* JavaScript objects are records whose DOMAIN is the set of own keys.     *)
(***************************************************************************)
EXTENDS Integers, Sequences, FiniteSets, TLC

VARIABLES
  pc,               \* position of the running call
  stringElement,    \* normalizeString: its argument
  normalized,       \* normalizeString: its return value
  flowSet,          \* the NRFlowSet the call works on
  flowConfig,       \* reorderTabs: the array, mutated in place
  reference,        \* reorderTabs: the reference list of ids
  given,            \* reorderTabs: the array as it was when first passed
  firstPass,        \* reorderTabs: the outcome of the first call
  contents,         \* the tree object (list of tree entries)
  config,           \* the FlowsFileManager config object
  overwriteTabsOrder, \* the overwriteTabsOrder argument
  result,           \* outcome of the call: what it returned, or the throw
  fs                \* the filesystem: calls made so far and what is on disk

vars == <<pc, stringElement, normalized, flowSet, flowConfig, reference,
          given, firstPass, contents, config, overwriteTabsOrder, result, fs>>

----------------------------------------------------------------------------
(* Bounds of the model.                                                    *)

MaxLen == 3
MaxRun == 36
MaxNodes == 3
MaxRef == 3
MaxFlows == 2
MaxSubflows == 1
MaxConfigNodes == 1
MaxMembers == 3
MaxTabsOrder == 2

----------------------------------------------------------------------------
(* Strings.                                                                *)

Digits == <<"0", "1", "2", "3", "4", "5", "6", "7", "8", "9">>
Upper  == <<"A", "B", "C", "D", "E", "F", "G", "H", "I", "J", "K", "L", "M",
            "N", "O", "P", "Q", "R", "S", "T", "U", "V", "W", "X", "Y", "Z">>
Lower  == <<"a", "b", "c", "d", "e", "f", "g", "h", "i", "j", "k", "l", "m",
            "n", "o", "p", "q", "r", "s", "t", "u", "v", "w", "x", "y", "z">>

Range(s) == {s[i] : i \in DOMAIN s}

IndexOf(s, c) == CHOOSE i \in DOMAIN s : s[i] = c

\* the class [a-zA-Z0-9\.] of the regular expression in normalizeString
SafeChar(c) == c \in Range(Digits) \cup Range(Upper) \cup Range(Lower) \cup {"."}

\* String.prototype.toLowerCase, one character
toLowerChar(c) == IF c \in Range(Upper) THEN Lower[IndexOf(Upper, c)] ELSE c

toLowerCase(s) == [i \in DOMAIN s |-> toLowerChar(s[i])]

\* the UTF-16 code unit of a character, which is what < and sort() compare
CodeUnit(c) ==
  CASE c \in Range(Digits) -> 47 + IndexOf(Digits, c)
    [] c \in Range(Upper)  -> 64 + IndexOf(Upper, c)
    [] c \in Range(Lower)  -> 96 + IndexOf(Lower, c)
    [] c = " " -> 32
    [] c = "!" -> 33
    [] c = "-" -> 45
    [] c = "." -> 46
    [] c = "_" -> 95

\* a < b on two JavaScript strings
RECURSIVE StrLess(_, _)
StrLess(a, b) ==
  IF b = <<>> THEN FALSE
  ELSE IF a = <<>> THEN TRUE
  ELSE IF a[1] # b[1] THEN CodeUnit(a[1]) < CodeUnit(b[1])
  ELSE StrLess(Tail(a), Tail(b))

RECURSIVE Repeat(_, _)
Repeat(c, n) == IF n = 0 THEN <<>> ELSE <<c>> \o Repeat(c, n - 1)

\* all sequences over S of length lo..hi
SeqsOf(S, lo, hi) == UNION {[1..n -> S] : n \in lo..hi}

----------------------------------------------------------------------------
(* normalizeString                                                         *)

\* s.replace(/[^a-zA-Z0-9\.]/g, '-')
replaceUnsafe(s) == [i \in DOMAIN s |-> IF SafeChar(s[i]) THEN s[i] ELSE "-"]

\* s.replace(/-{k}/g, '-') for the literal patterns ----, --- and -- : the
\* leftmost match is replaced and the scan goes on after it
RECURSIVE replaceDashes(_, _)
replaceDashes(s, k) ==
  IF Len(s) < k THEN s
  ELSE IF \A i \in 1..k : s[i] = "-"
       THEN <<"-">> \o replaceDashes(SubSeq(s, k + 1, Len(s)), k)
       ELSE <<s[1]>> \o replaceDashes(Tail(s), k)

stripLeading(s) == IF s # <<>> /\ s[1] = "-" THEN Tail(s) ELSE s

stripTrailing(s) ==
  IF s # <<>> /\ s[Len(s)] = "-" THEN SubSeq(s, 1, Len(s) - 1) ELSE s

normalizeString(s) ==
  LET collapsed ==
        replaceDashes(replaceDashes(replaceDashes(replaceDashes(
          replaceUnsafe(s), 4), 3), 2), 2)
  IN stripTrailing(stripLeading(toLowerCase(collapsed)))

----------------------------------------------------------------------------
(* Values shared by the specifications.                                    *)

\* the JavaScript value undefined, as an array element or a return value
Undefined == [undefined |-> TRUE]

NoFlowSet == [flows |-> <<>>, subflows |-> <<>>, configNodes |-> <<>>]
NoConfig == [tabsOrder |-> <<>>]
NoFs == [calls |-> <<>>, dirs |-> {}, files |-> <<>>, strictData |-> TRUE]

\* the variables a specification does not use keep these values
IdleNormalize == stringElement = <<>> /\ normalized = <<>>
IdleFlowSet == flowSet = NoFlowSet
IdleReorder == /\ flowConfig = <<>> /\ reference = <<>> /\ given = <<>>
               /\ firstPass = Undefined
IdleTree == contents = <<>>
IdleCall == /\ config = NoConfig /\ overwriteTabsOrder = FALSE
            /\ result = Undefined /\ fs = NoFs

----------------------------------------------------------------------------
(* SpecNormalize: normalizeString applied to one string.                   *)

NormalizeAlphabet == {"a", "B", "7", ".", "-", " ", "!"}

\* non-empty strings: the chain of || in disambiguate never hands
\* normalizeString an empty string
NormalizeInputs ==
  SeqsOf(NormalizeAlphabet, 1, MaxLen)
    \cup {<<"a">> \o Repeat(c, n) \o <<"b">> : c \in {"-", " "}, n \in 1..MaxRun}

InitNormalize ==
  /\ pc = "ready"
  /\ stringElement \in NormalizeInputs
  /\ normalized = <<>>
  /\ IdleFlowSet /\ IdleReorder /\ IdleTree /\ IdleCall

CallNormalizeString ==
  /\ pc = "ready"
  /\ normalized' = normalizeString(stringElement)
  /\ pc' = "done"
  /\ UNCHANGED <<stringElement, flowSet, flowConfig, reference, given,
                 firstPass, contents, config, overwriteTabsOrder, result, fs>>

NextNormalize == CallNormalizeString

SpecNormalize == InitNormalize /\ [][NextNormalize]_vars

\* C2: normalizeString(s) is lowercase, non-empty, made of [a-z0-9.-] only,
\* neither begins nor ends with '-', and has no two consecutive '-'.
C2_SlugWellFormed ==
  pc = "done" =>
    /\ normalized # <<>>
    /\ \A i \in DOMAIN normalized :
         normalized[i] \in Range(Lower) \cup Range(Digits) \cup {".", "-"}
    /\ normalized[1] # "-"
    /\ normalized[Len(normalized)] # "-"
    /\ \A i \in 1..(Len(normalized) - 1) :
         ~(normalized[i] = "-" /\ normalized[i + 1] = "-")

\* two of the ways C2 fails, each on its own
C2_NonEmpty == pc = "done" => normalized # <<>>

C2_NoDoubledSeparator ==
  pc = "done" =>
    \A i \in 1..(Len(normalized) - 1) :
      ~(normalized[i] = "-" /\ normalized[i + 1] = "-")

----------------------------------------------------------------------------
(* moveElementInArray and reorderTabs.  Indices are JavaScript's, from 0.  *)

Min(a, b) == IF a < b THEN a ELSE b
Max(a, b) == IF a > b THEN a ELSE b

\* the start index Array.prototype.splice works from
spliceStart(len, start) ==
  IF start < 0 THEN Max(len + start, 0) ELSE Min(start, len)

\* arr.splice(start, 1): the element removed ([0] of the returned array,
\* undefined when nothing was removed) and the array left
spliceOne(arr, start) ==
  LET s == spliceStart(Len(arr), start)
  IN IF s < Len(arr)
     THEN [removed |-> arr[s + 1],
           arr |-> SubSeq(arr, 1, s) \o SubSeq(arr, s + 2, Len(arr))]
     ELSE [removed |-> Undefined, arr |-> arr]

\* arr.splice(start, 0, x)
spliceInsert(arr, start, x) ==
  LET s == spliceStart(Len(arr), start)
  IN SubSeq(arr, 1, s) \o <<x>> \o SubSeq(arr, s + 1, Len(arr))

\* the while (k--) arr.push(undefined) loop
padded(arr, newIndex) ==
  IF newIndex >= Len(arr)
  THEN arr \o [i \in 1..(newIndex - Len(arr) + 1) |-> Undefined]
  ELSE arr

moveElementInArray(arr, oldIndex, newIndex) ==
  LET cut == spliceOne(padded(arr, newIndex), oldIndex)
  IN spliceInsert(cut.arr, newIndex, cut.removed)

\* arr.findIndex(x => x.id === referenceId): x.id throws a TypeError on an
\* undefined element met before a match; -1 when nothing matches
findIndex(arr, referenceId) ==
  LET stops == {i \in DOMAIN arr :
                  \/ arr[i] = Undefined
                  \/ ("id" \in DOMAIN arr[i] /\ arr[i].id = referenceId)}
      first == CHOOSE i \in stops : \A j \in stops : i <= j
  IN IF stops = {} THEN [threw |-> FALSE, index |-> -1]
     ELSE IF arr[first] = Undefined THEN [threw |-> TRUE, index |-> -1]
     ELSE [threw |-> FALSE, index |-> first - 1]

\* the loop body for i = n, n-1, ..., 1 (reference[i-1] in the source)
RECURSIVE reorderFrom(_, _, _)
reorderFrom(arr, ref, n) ==
  IF n = 0 THEN [threw |-> FALSE, arr |-> arr]
  ELSE LET found == findIndex(arr, ref[n])
       IN IF found.threw THEN [threw |-> TRUE, arr |-> arr]
          ELSE reorderFrom(moveElementInArray(arr, found.index, 0), ref, n - 1)

\* a plausible slip: the reference list walked first to last
RECURSIVE reorderForward(_, _, _)
reorderForward(arr, ref, n) ==
  IF n > Len(ref) THEN [threw |-> FALSE, arr |-> arr]
  ELSE LET found == findIndex(arr, ref[n])
       IN IF found.threw THEN [threw |-> TRUE, arr |-> arr]
          ELSE reorderForward(moveElementInArray(arr, found.index, 0), ref, n + 1)

reorderTabsForward(arr, ref) == reorderForward(arr, ref, 1)

\* the array after the call and whether the call threw
reorderTabs(arr, ref) == reorderFrom(arr, ref, Len(ref))

----------------------------------------------------------------------------
(* SpecReorder: reorderTabs called on an array, then again on its result.  *)

NodeIds == {<<"a">>, <<"b">>, <<"c">>, <<"d">>}

Distinct(s) == \A i, j \in DOMAIN s : i # j => s[i] # s[j]

IdsOf(arr) == {arr[i].id : i \in {j \in DOMAIN arr : "id" \in DOMAIN arr[j]}}

\* arrays of nodes with distinct ids
NodeArrays ==
  {[i \in DOMAIN ids |-> [id |-> ids[i]]] :
     ids \in {s \in SeqsOf(NodeIds, 0, MaxNodes) : Distinct(s)}}

InitReorder ==
  /\ pc = "ready"
  /\ flowConfig \in NodeArrays
  /\ given = flowConfig
  /\ reference \in SeqsOf(NodeIds, 0, MaxRef)
  /\ firstPass = Undefined
  /\ result = Undefined
  /\ IdleNormalize /\ IdleFlowSet /\ IdleTree
  /\ config = NoConfig /\ overwriteTabsOrder = FALSE /\ fs = NoFs

CallReorderTabs ==
  /\ pc = "ready"
  /\ firstPass' = reorderTabs(flowConfig, reference)
  /\ flowConfig' = firstPass'.arr
  /\ pc' = "once"
  /\ UNCHANGED <<stringElement, normalized, flowSet, reference, given,
                 contents, config, overwriteTabsOrder, result, fs>>

\* reorderTabs(reorderTabs(seq, refs), refs): only a call that returned
\* hands its array on
CallReorderTabsAgain ==
  /\ pc = "once"
  /\ ~firstPass.threw
  /\ result' = reorderTabs(flowConfig, reference)
  /\ flowConfig' = result'.arr
  /\ pc' = "twice"
  /\ UNCHANGED <<stringElement, normalized, flowSet, reference, given,
                 firstPass, contents, config, overwriteTabsOrder, fs>>

NextReorder == CallReorderTabs \/ CallReorderTabsAgain

SpecReorder == InitReorder /\ [][NextReorder]_vars

AllPresent == Range(reference) \subseteq IdsOf(given)

\* the elements of arr whose id is in ids, in their order in arr
Keep(arr, ids) == SelectSeq(arr, LAMBDA x : x.id \in ids)

\* the element of arr with this id
NodeOf(arr, id) == arr[CHOOSE i \in DOMAIN arr : arr[i].id = id]

\* C3: with distinct reference ids that all occur in the sequence, the
\* result is the referenced elements in the order of the reference list,
\* followed by the other elements in their original relative order.
C3_PinnedPrefix ==
  (pc # "ready" /\ Distinct(reference) /\ AllPresent) =>
    /\ ~firstPass.threw
    /\ firstPass.arr =
         [i \in DOMAIN reference |-> NodeOf(given, reference[i])]
           \o Keep(given, IdsOf(given) \ Range(reference))

C3_Witness ==
  /\ pc = "once" /\ Distinct(reference) /\ AllPresent
  /\ Len(reference) >= 2
  /\ IdsOf(given) \ Range(reference) # {}
  /\ given[1].id \notin Range(reference)
  /\ firstPass.arr # given

\* C4: an id of the reference list that no element has is a no-op: the
\* call does not fail and leaves the sequence as it would be had the id
\* been left out of the reference list (the empty sequence included).
C4_AbsentIdIsNoOp ==
  (pc # "ready" /\ ~AllPresent) =>
    /\ ~firstPass.threw
    /\ firstPass.arr =
         reorderTabs(given, SelectSeq(reference,
                                     LAMBDA id : id \in IdsOf(given))).arr

\* C4 on the empty sequence alone
C4_EmptySequence ==
  (pc # "ready" /\ given = <<>>) => (~firstPass.threw /\ firstPass.arr = <<>>)

\* C4 on a sequence that has elements
C4_NonEmptySequence ==
  (pc # "ready" /\ given # <<>> /\ ~AllPresent /\ Len(reference) = 1) =>
    firstPass.arr = given

\* C8: reorderTabs is idempotent, absent and repeated reference ids
\* included: the second call returns what the first returned.
C8_Idempotent ==
  pc = "twice" => (~result.threw /\ result.arr = firstPass.arr)

\* C8 where every reference id occurs in the sequence
C8_IdempotentWhenPresent ==
  (pc = "twice" /\ AllPresent) => (~result.threw /\ result.arr = firstPass.arr)

----------------------------------------------------------------------------
(* disambiguate and constructFlowSetFromMonolithObject.                    *)

\* obj[key] of a string-valued property, with undefined read as '' (both
\* are falsy, which is all the || chain asks)
prop(obj, key) == IF key \in DOMAIN obj THEN obj[key] ELSE <<>>

\* obj[key] = val
setProp(obj, key, val) ==
  [k \in DOMAIN obj \cup {key} |-> IF k = key THEN val ELSE obj[k]]

\* a || b on strings
OrElse(a, b) == IF a # <<>> THEN a ELSE b

\* (subelement.config.site === undefined) ? undefined : subelement.config.site.name
siteName(subelement) ==
  IF "site" \in DOMAIN subelement.config
  THEN prop(subelement.config.site, "name") ELSE <<>>

\* the argument of normalizeString in disambiguate
candidateLabel(subelement, attribute) ==
  OrElse(prop(subelement.config, attribute),
    OrElse(prop(subelement, attribute),
      OrElse(siteName(subelement),
        OrElse(subelement.type, subelement.id))))

\* one turn of the forEach: the subelement relabelled, the list extended
disambiguateOne(subelement, filenamesList, attribute) ==
  LET slug == normalizeString(candidateLabel(subelement, attribute))
      normalizedAttribute ==
        IF slug \in Range(filenamesList)
        THEN slug \o <<"-">> \o subelement.id
        ELSE slug
  IN [subelement |->
        setProp(subelement, "config",
                setProp(subelement.config, "normalizedLabel", normalizedAttribute)),
      filenamesList |-> Append(filenamesList, normalizedAttribute)]

\* the forEach over the first n subelements
RECURSIVE disambiguateUpTo(_, _, _, _)
disambiguateUpTo(subelements, filenamesList, attribute, n) ==
  IF n = 0 THEN [subelements |-> <<>>, filenamesList |-> filenamesList]
  ELSE LET before == disambiguateUpTo(subelements, filenamesList, attribute, n - 1)
           this == disambiguateOne(subelements[n], before.filenamesList, attribute)
       IN [subelements |-> Append(before.subelements, this.subelement),
           filenamesList |-> this.filenamesList]

disambiguate(fset, child, attribute) ==
  LET filenamesList == IF "filenamesList" \in DOMAIN fset
                       THEN fset.filenamesList ELSE <<>>
      done == disambiguateUpTo(fset[child], filenamesList, attribute,
                               Len(fset[child]))
  IN setProp(setProp(fset, "filenamesList", done.filenamesList),
             child, done.subelements)

\* Array.from(flowSet.flows.keys())
flowKeys(fset) == [i \in DOMAIN fset.flows |-> fset.flows[i].id]

\* the flow set constructFlowSetFromMonolithObject returns, given the one
\* flowParser.parseFlow built
constructFlowSetFromMonolithObject(parsed) ==
  disambiguate(
    disambiguate(
      disambiguate(setProp(parsed, "tabsOrder", flowKeys(parsed)),
                   "flows", "label"),
      "subflows", "name"),
    "configNodes", "name")

----------------------------------------------------------------------------
(* SpecDisambiguate: constructFlowSetFromMonolithObject on a parsed flow   *)
(* set.                                                                    *)

FlowId(i) == <<"f", Digits[i + 1]>>
SubflowId(i) == <<"s", Digits[i + 1]>>
ConfigNodeId(i) == <<"c", Digits[i + 1]>>

EntityIds ==
  {FlowId(i) : i \in 1..MaxFlows} \cup {SubflowId(i) : i \in 1..MaxSubflows}
    \cup {ConfigNodeId(i) : i \in 1..MaxConfigNodes}

\* labels a user may type: a plain one, and ones that read like another
\* entity's '<slug>-<id>'
Labels == {<<"T", "e", "s", "t">>}
            \cup {<<"t", "e", "s", "t", "-">> \o id : id \in EntityIds}

\* the objects holding a label under this key, or holding none
Labelled(base, key) == {base} \cup {setProp(base, key, l) : l \in Labels}

Flows(i) ==
  {[id |-> FlowId(i), type |-> <<"t", "a", "b">>, config |-> c] :
     c \in Labelled([id |-> FlowId(i), type |-> <<"t", "a", "b">>], "label")}

SubflowType == <<"s", "u", "b", "f", "l", "o", "w">>

Subflows(i) ==
  LET plain == {[id |-> SubflowId(i), type |-> SubflowType, config |-> c] :
                  c \in Labelled([id |-> SubflowId(i), type |-> SubflowType], "name")}
  IN plain \cup {setProp(e, "name", <<"T", "e", "s", "t">>) : e \in plain}

ConfigNodeType == <<"u", "i", "_", "b", "a", "s", "e">>

ConfigNodes(i) ==
  LET base == [id |-> ConfigNodeId(i), type |-> ConfigNodeType]
      sited == setProp(base, "site", [name |-> <<"T", "e", "s", "t">>])
  IN {[id |-> ConfigNodeId(i), type |-> ConfigNodeType, config |-> c] :
        c \in Labelled(base, "name") \cup Labelled(sited, "name")}

\* sequences e1, ..., en with ei drawn from of[i], for n up to Len(of)
EntitySeqs(of) ==
  UNION {{s \in [1..n -> UNION {of[i] : i \in 1..n}] :
            \A i \in 1..n : s[i] \in of[i]} : n \in 0..Len(of)}

ParsedFlowSets ==
  [flows : EntitySeqs([i \in 1..MaxFlows |-> Flows(i)]),
   subflows : EntitySeqs([i \in 1..MaxSubflows |-> Subflows(i)]),
   configNodes : EntitySeqs([i \in 1..MaxConfigNodes |-> ConfigNodes(i)])]

InitDisambiguate ==
  /\ pc = "parsed"
  /\ flowSet \in ParsedFlowSets
  /\ IdleNormalize /\ IdleReorder /\ IdleTree /\ IdleCall

CallConstructFlowSetFromMonolithObject ==
  /\ pc = "parsed"
  /\ flowSet' = constructFlowSetFromMonolithObject(flowSet)
  /\ pc' = "done"
  /\ UNCHANGED <<stringElement, normalized, flowConfig, reference, given,
                 firstPass, contents, config, overwriteTabsOrder, result, fs>>

NextDisambiguate == CallConstructFlowSetFromMonolithObject

SpecDisambiguate == InitDisambiguate /\ [][NextDisambiguate]_vars

Entities(fset) == fset.flows \o fset.subflows \o fset.configNodes

\* C1: after disambiguate has run once per category on the same FlowSet,
\* the normalizedLabel values of all entities across flows, subflows and
\* configNodes are pairwise distinct.
C1_LabelsDistinct ==
  pc = "done" =>
    LET es == Entities(flowSet)
    IN \A i, j \in DOMAIN es :
         i # j => es[i].config.normalizedLabel # es[j].config.normalizedLabel

\* C1 where no label reads like another entity's '<slug>-<id>'
C1_DistinctForPlainLabels ==
  (pc = "done"
     /\ \A i \in DOMAIN Entities(flowSet) :
          \A k \in {"label", "name"} :
            prop(Entities(flowSet)[i].config, k) \in {<<>>, <<"T", "e", "s", "t">>}) =>
    Distinct([i \in DOMAIN Entities(flowSet) |->
                Entities(flowSet)[i].config.normalizedLabel])

----------------------------------------------------------------------------
(* compare, Array.prototype.sort and fixGroupNode.                         *)

compare(a, b) ==
  IF StrLess(a.id, b.id) THEN -1
  ELSE IF StrLess(b.id, a.id) THEN 1
  ELSE 0

\* nodes.sort(compare): x put in its place in an array already sorted
RECURSIVE insertNode(_, _)
insertNode(sorted, x) ==
  IF sorted = <<>> THEN <<x>>
  ELSE IF compare(x, sorted[1]) < 0 THEN <<x>> \o sorted
  ELSE <<sorted[1]>> \o insertNode(Tail(sorted), x)

RECURSIVE sortNodes(_)
sortNodes(nodes) ==
  IF nodes = <<>> THEN <<>>
  ELSE insertNode(sortNodes(SubSeq(nodes, 1, Len(nodes) - 1)), nodes[Len(nodes)])

\* strings.sort(): the default order, by UTF-16 code units
RECURSIVE insertString(_, _)
insertString(sorted, x) ==
  IF sorted = <<>> THEN <<x>>
  ELSE IF StrLess(x, sorted[1]) THEN <<x>> \o sorted
  ELSE <<sorted[1]>> \o insertString(Tail(sorted), x)

RECURSIVE sortStrings(_)
sortStrings(strings) ==
  IF strings = <<>> THEN <<>>
  ELSE insertString(sortStrings(SubSeq(strings, 1, Len(strings) - 1)),
                    strings[Len(strings)])

\* delete obj[key]
deleteProp(obj, key) == [k \in DOMAIN obj \ {key} |-> obj[k]]

\* if (node[key]) on a numeric property: absent and 0 are both falsy
truthyNumber(node, key) == key \in DOMAIN node /\ node[key] # 0

GroupType == <<"g", "r", "o", "u", "p">>

\* the body of the inner forEach of fixGroupNode
fixOneNode(node) ==
  IF "type" \in DOMAIN node /\ node.type = GroupType
  THEN LET noW == IF truthyNumber(node, "w") THEN deleteProp(node, "w") ELSE node
           noH == IF truthyNumber(noW, "h") THEN deleteProp(noW, "h") ELSE noW
       IN IF "nodes" \in DOMAIN noH
          THEN setProp(noH, "nodes", sortStrings(noH.nodes))
          ELSE noH
  ELSE node

fixGroupNode(tree) ==
  [e \in DOMAIN tree |->
     setProp(tree[e], "content",
             [n \in DOMAIN tree[e].content |-> fixOneNode(tree[e].content[n])])]

----------------------------------------------------------------------------
(* SpecGroup: fixGroupNode applied to a tree object.                       *)

MemberIds == {<<"n", "1">>, <<"n", "1", "0">>, <<"n", "2">>}

MemberLists == {s \in SeqsOf(MemberIds, 0, MaxMembers) : Distinct(s)}

\* the objects built from base by setting each key of vals, or not, to one
\* of the values on offer for it
RECURSIVE WithOptional(_, _, _)
WithOptional(bases, keys, vals) ==
  IF keys = <<>> THEN bases
  ELSE WithOptional(
         bases \cup {setProp(b, keys[1], v) : b \in bases, v \in vals[keys[1]]},
         Tail(keys), vals)

GroupNodes ==
  WithOptional({[id |-> <<"g", "1">>, type |-> GroupType]},
               <<"w", "h", "nodes">>,
               [w |-> {0, 100}, h |-> {0, 50}, nodes |-> MemberLists])

FunctionType == <<"f", "u", "n", "c", "t", "i", "o", "n">>

\* nodes of another type, and one with no type, carrying the same keys
OtherNodes ==
  WithOptional({[id |-> <<"n", "1">>, type |-> FunctionType], [id |-> <<"n", "1">>]},
               <<"w", "nodes">>,
               [w |-> {100}, nodes |-> {<<<<"n", "2">>, <<"n", "1">>>>}])

TabNode == [id |-> <<"f", "1">>, type |-> <<"t", "a", "b">>]

TreeEntry(fileName, folder, content) ==
  [fileName |-> fileName, folder |-> folder, content |-> content]

GroupTrees ==
  {<<TreeEntry(<<"t">>, <<"t", "a", "b", "s">>, <<TabNode, x>>)>> :
     x \in GroupNodes \cup OtherNodes}
  \cup {<<TreeEntry(<<"t">>, <<"t", "a", "b", "s">>, <<TabNode, o>>),
          TreeEntry(<<"s">>, <<"s", "u", "b", "f", "l", "o", "w", "s">>, <<x>>)>> :
          x \in GroupNodes, o \in OtherNodes}

InitGroup ==
  /\ pc = "ready"
  /\ contents \in GroupTrees
  /\ given = contents
  /\ IdleNormalize /\ IdleFlowSet /\ IdleCall
  /\ flowConfig = <<>> /\ reference = <<>> /\ firstPass = Undefined

CallFixGroupNode ==
  /\ pc = "ready"
  /\ contents' = fixGroupNode(contents)
  /\ pc' = "done"
  /\ UNCHANGED <<stringElement, normalized, flowSet, flowConfig, reference,
                 given, firstPass, config, overwriteTabsOrder, result, fs>>

NextGroup == CallFixGroupNode

SpecGroup == InitGroup /\ [][NextGroup]_vars

IsGroup(node) == "type" \in DOMAIN node /\ node.type = GroupType

\* s is t in ascending code-unit order
SortedCopy(s, t) ==
  /\ Len(s) = Len(t)
  /\ Range(s) = Range(t)
  /\ \A i \in 1..(Len(s) - 1) : StrLess(s[i], s[i + 1])

\* the canonical form C10 names, of one node
CanonicalOf(out, in) ==
  IF IsGroup(in)
  THEN /\ DOMAIN out = DOMAIN in \ {"w", "h"}
       /\ \A k \in DOMAIN out \ {"nodes"} : out[k] = in[k]
       /\ "nodes" \in DOMAIN in => SortedCopy(out.nodes, in.nodes)
  ELSE out = in

\* C10: fixGroupNode maps every group node of every TreeEntry content list
\* to a canonical form: no w or h field whenever one was present, whatever
\* its value, and the membership list sorted; other nodes are unchanged.
C10_GroupCanonical ==
  pc = "done" =>
    /\ Len(contents) = Len(given)
    /\ \A e \in DOMAIN given :
         /\ Len(contents[e].content) = Len(given[e].content)
         /\ \A n \in DOMAIN given[e].content :
              CanonicalOf(contents[e].content[n], given[e].content[n])

\* C10 for groups whose w and h, when present, are not 0
C10_CanonicalWhenNonZero ==
  (pc = "done"
     /\ \A e \in DOMAIN given : \A n \in DOMAIN given[e].content :
          \A k \in {"w", "h"} \cap DOMAIN given[e].content[n] :
            given[e].content[n][k] # 0) =>
    \A e \in DOMAIN given : \A n \in DOMAIN given[e].content :
      CanonicalOf(contents[e].content[n], given[e].content[n])

----------------------------------------------------------------------------
(* The flow-parser objects, as far as src/index.js calls into them.        *)

\* entity.export(): the entity's own record
export(entity) == entity.config

\* entity.exportContents(): the nodes placed in the entity
exportContents(entity) == prop(entity, "contents")

\* flowSet.export(): every node of the flow set, in the provider's order
exportFlowSet(fset) == fset.exported

----------------------------------------------------------------------------
(* constructTreeObjectFromFlowSet and constructFlowSetFromTreeObject.      *)

TabsFolder == <<"t", "a", "b", "s">>
SubflowsFolder == <<"s", "u", "b", "f", "l", "o", "w", "s">>
ConfigNodesFolder == <<"c", "o", "n", "f", "i", "g", "-", "n", "o", "d", "e", "s">>

constructTreeObjectFromFlowSet(fset) ==
  fixGroupNode(
    [i \in DOMAIN fset.flows |->
       TreeEntry(fset.flows[i].config.normalizedLabel, TabsFolder,
                 <<export(fset.flows[i])>>
                   \o sortNodes(exportContents(fset.flows[i])))]
    \o [i \in DOMAIN fset.subflows |->
       TreeEntry(fset.subflows[i].config.normalizedLabel, SubflowsFolder,
                 <<export(fset.subflows[i])>>
                   \o sortNodes(exportContents(fset.subflows[i])))]
    \o [i \in DOMAIN fset.configNodes |->
       TreeEntry(fset.configNodes[i].config.normalizedLabel, ConfigNodesFolder,
                 <<export(fset.configNodes[i])>>)])

\* a.concat(b): a new array is returned and the receiver is left as it was
concat(a, b) == [returned |-> a \o b, receiver |-> a]

\* flowConfig after the forEach over the first n tree entries: each turn
\* evaluates flowConfig.concat(element.content) and drops what it returns
RECURSIVE flowConfigAfter(_, _, _)
flowConfigAfter(acc, tree, n) ==
  IF n = 0 THEN acc
  ELSE concat(flowConfigAfter(acc, tree, n - 1), tree[n].content).receiver

\* the array constructFlowSetFromTreeObject hands to flowParser.parseFlow,
\* or the throw of reorderTabs
constructFlowSetFromTreeObject(tree, cfg) ==
  reorderTabs(flowConfigAfter(<<>>, tree, Len(tree)), cfg.tabsOrder)

----------------------------------------------------------------------------
(* SpecTree: a flow set turned into a tree object and back.                *)

OrdersOf(s) ==
  {[i \in DOMAIN s |-> s[f[i]]] :
     f \in {g \in [DOMAIN s -> DOMAIN s] : \A i, j \in DOMAIN s : i # j => g[i] # g[j]}}

Reverse(s) == [i \in DOMAIN s |-> s[Len(s) + 1 - i]]

PlacedNode(id, z) == [id |-> id, type |-> FunctionType, z |-> z]

PlacedGroup(z) ==
  [id |-> <<"g", "1">>, type |-> GroupType, z |-> z, w |-> 100, h |-> 50,
   nodes |-> <<<<"n", "2">>, <<"n", "1">>>>]

\* flow i: labelled, and flow 1 with nothing, one node or a group in it
TreeFlows(i) ==
  LET flow == [id |-> FlowId(i), type |-> <<"t", "a", "b">>,
               config |-> [id |-> FlowId(i), type |-> <<"t", "a", "b">>,
                           label |-> <<"T", "e", "s", "t">>]]
  IN IF i > 1 THEN {flow}
     ELSE {flow,
           setProp(flow, "contents", <<PlacedNode(<<"n", "2">>, FlowId(i))>>),
           setProp(flow, "contents", <<PlacedNode(<<"n", "2">>, FlowId(i)),
                                        PlacedGroup(FlowId(i))>>)}

TreeConfigNodes(i) ==
  {[id |-> ConfigNodeId(i), type |-> ConfigNodeType,
    config |-> [id |-> ConfigNodeId(i), type |-> ConfigNodeType]]}

RECURSIVE Flatten(_)
Flatten(ss) == IF ss = <<>> THEN <<>> ELSE ss[1] \o Flatten(Tail(ss))

\* every node of the flow set, entity by entity
AllNodes(fset) ==
  Flatten([i \in DOMAIN Entities(fset) |->
             <<export(Entities(fset)[i])>> \o exportContents(Entities(fset)[i])])

\* the flow sets constructFlowSetFromMonolithObject returns, each with an
\* order in which the provider exports its nodes
BuiltFlowSets(parsed) ==
  UNION {{setProp(fset, "exported", order) : order \in OrdersOf(AllNodes(fset))} :
           fset \in {constructFlowSetFromMonolithObject(q) : q \in parsed}}

TreeFlowSets ==
  BuiltFlowSets([flows : EntitySeqs([i \in 1..MaxFlows |-> TreeFlows(i)]),
                 subflows : {<<>>},
                 configNodes :
                   EntitySeqs([i \in 1..MaxConfigNodes |-> TreeConfigNodes(i)])])

FullConfig(fileFormat, tabsOrder) ==
  [fileFormat |-> fileFormat, destinationFolder |-> <<"s", "r", "c">>,
   tabsOrder |-> tabsOrder, monolithFilename |-> <<"f", "l", "o", "w", "s">>]

Json == <<"j", "s", "o", "n">>

InitTree ==
  /\ pc = "ready"
  /\ flowSet \in TreeFlowSets
  /\ config \in {FullConfig(Json, order) :
                   order \in {<<>>, flowSet.tabsOrder, Reverse(flowSet.tabsOrder)}}
  /\ contents = <<>>
  /\ flowConfig = <<>>
  /\ result = Undefined
  /\ IdleNormalize
  /\ reference = <<>> /\ given = <<>> /\ firstPass = Undefined
  /\ overwriteTabsOrder = FALSE /\ fs = NoFs

CallConstructTreeObjectFromFlowSet ==
  /\ pc = "ready"
  /\ contents' = constructTreeObjectFromFlowSet(flowSet)
  /\ pc' = "tree"
  /\ UNCHANGED <<stringElement, normalized, flowSet, flowConfig, reference,
                 given, firstPass, config, overwriteTabsOrder, result, fs>>

CallConstructFlowSetFromTreeObject ==
  /\ pc = "tree"
  /\ result' = constructFlowSetFromTreeObject(contents, config)
  /\ flowConfig' = result'.arr
  /\ pc' = "done"
  /\ UNCHANGED <<stringElement, normalized, flowSet, reference, given,
                 firstPass, contents, config, overwriteTabsOrder, fs>>

NextTree == CallConstructTreeObjectFromFlowSet \/ CallConstructFlowSetFromTreeObject

SpecTree == InitTree /\ [][NextTree]_vars

\* C5: the flat node sequence constructFlowSetFromTreeObject builds from
\* constructTreeObjectFromFlowSet(flowSet) holds exactly the node ids of
\* flowSet.export(), with the tabs in tabsOrder order at the front when
\* tabsOrder is not empty.
C5_RoundTrip ==
  pc = "done" =>
    /\ ~result.threw
    /\ \A i \in DOMAIN result.arr : "id" \in DOMAIN result.arr[i]
    /\ IdsOf(result.arr) = IdsOf(exportFlowSet(flowSet))
    /\ config.tabsOrder # <<>> =>
         /\ Len(result.arr) >= Len(config.tabsOrder)
         /\ \A i \in DOMAIN config.tabsOrder :
              result.arr[i].id = config.tabsOrder[i]

\* what the tree object itself holds: the node ids of flowSet.export()
C5_TreeHoldsEveryNode ==
  pc = "tree" =>
    IdsOf(Flatten([e \in DOMAIN contents |-> contents[e].content]))
      = IdsOf(exportFlowSet(flowSet))

----------------------------------------------------------------------------
(* The config checks, forgeDumpData and createSrcFolders.                  *)

\* what a call came to: it returned undefined, returned a value, or threw
Absent == [kind |-> "absent"]
Threw == [kind |-> "threw"]
Returned(v) == [kind |-> "returned", value |-> v]

\* !obj[key] on a string-valued property
falsy(obj, key) == prop(obj, key) = <<>>

\* the first if of every operation that takes a config
erroneousConfig(cfg) ==
  \/ falsy(cfg, "fileFormat")
  \/ falsy(cfg, "destinationFolder")
  \/ "tabsOrder" \notin DOMAIN cfg
  \/ falsy(cfg, "monolithFilename")

StartsWith(s, p) == Len(s) >= Len(p) /\ SubSeq(s, 1, Len(p)) = p
EndsWith(s, p) == Len(s) >= Len(p) /\ SubSeq(s, Len(s) - Len(p) + 1, Len(s)) = p
Contains(s, p) == \E i \in 0..(Len(s) - Len(p)) : SubSeq(s, i + 1, i + Len(p)) = p

Yaml == <<"y", "a", "m", "l">>
Yml == <<"y", "m", "l">>

\* /^json|yaml|yml$/.test(s): the alternatives are ^json, yaml and yml$
formatRegexTest(s) == StartsWith(s, Json) \/ Contains(s, Yaml) \/ EndsWith(s, Yml)

unexpectedFormat(cfg) == ~formatRegexTest(toLowerCase(cfg.fileFormat))

\* the text of a file: a dump of an object in a format, or the characters
\* 'undefined'
Text(format, object) == [kind |-> "text", format |-> format, of |-> object]
UndefinedText == [kind |-> "text", format |-> "none", of |-> <<>>]

\* forgeDumpData, of an objectElement that is Absent (undefined) or
\* Returned(array): JSON.stringify(undefined) is undefined, and eol.auto
\* calls .replace on its argument, which throws a TypeError on undefined
forgeDumpData(objectElement, extension) ==
  IF toLowerCase(extension) = Json
  THEN IF objectElement = Absent THEN Threw
       ELSE Returned(Text("json", objectElement.value))
  ELSE IF toLowerCase(extension) = Yaml \/ toLowerCase(extension) = Yml
       THEN Returned(Text("yaml", objectElement.value))
       ELSE Absent

\* one call into fs, as recorded in fs.calls
FsCall(fn, path) == [fn |-> fn, path |-> path]

logCall(disk, fn, path) == setProp(disk, "calls", Append(disk.calls, FsCall(fn, path)))

\* fs.existsSync(dir) and, when it is not there, fs.mkdirSync(dir,
\* {recursive: true}), for the first n of the three directories
TreeFolders == <<TabsFolder, SubflowsFolder, ConfigNodesFolder>>

RECURSIVE createFolders(_, _, _)
createFolders(cfg, disk, n) ==
  IF n = 0 THEN disk
  ELSE LET before == createFolders(cfg, disk, n - 1)
           asked == logCall(before, "existsSync", TreeFolders[n])
       IN IF TreeFolders[n] \in before.dirs THEN asked
          ELSE setProp(logCall(asked, "mkdirSync", TreeFolders[n]), "dirs",
                       before.dirs \cup {cfg.destinationFolder, TreeFolders[n]})

\* createSrcFolders: the disk afterwards; the finally block returns true
\* whatever happened
createSrcFolders(cfg, disk) ==
  [ok |-> TRUE, fs |-> createFolders(cfg, disk, Len(TreeFolders))]

\* fs.writeFileSync(path, data) inside try/catch: undefined data is refused
\* with a TypeError by a Node.js that validates it, and written out as the
\* characters 'undefined' by one that does not
writeFileSync(disk, folder, filename, data) ==
  LET called == logCall(disk, "writeFileSync", <<folder, filename>>)
      text == IF data = Absent THEN UndefinedText ELSE data.value
      kept == SelectSeq(disk.files,
                        LAMBDA f : ~(f.folder = folder /\ f.filename = filename))
  IN IF data = Absent /\ disk.strictData THEN called
     ELSE setProp(called, "files",
                  Append(kept, [folder |-> folder, filename |-> filename,
                                text |-> text]))

----------------------------------------------------------------------------
(* The public operations that take a config.  Each gives what the call     *)
(* came to (result), the disk afterwards (fs) and the config afterwards.   *)

Came(res, disk, cfg) == [result |-> res, fs |-> disk, config |-> cfg]

\* the forEach of constructTreeFilesFromFlowSet over the first n entries
RECURSIVE writeTree(_, _, _, _)
writeTree(disk, tree, cfg, n) ==
  IF n = 0 THEN disk
  ELSE writeFileSync(writeTree(disk, tree, cfg, n - 1), tree[n].folder,
                     tree[n].fileName \o <<".">> \o cfg.fileFormat,
                     forgeDumpData(Returned(tree[n].content),
                                   toLowerCase(cfg.fileFormat)))

constructTreeFilesFromFlowSet(fset, cfg, disk) ==
  IF erroneousConfig(cfg) THEN Came(Absent, disk, cfg)
  ELSE IF unexpectedFormat(cfg) THEN Came(Absent, disk, cfg)
  ELSE LET tree == constructTreeObjectFromFlowSet(fset)
           made == createSrcFolders(cfg, disk)
           written == IF made.ok THEN writeTree(made.fs, tree, cfg, Len(tree))
                      ELSE made.fs
           returned == setProp(cfg, "tabsOrder", fset.tabsOrder)
       IN Came(Returned(returned), written, returned)

\* a plausible slip: the sorted array returned in both branches
constructMonolithObjectAlwaysSorted(fset, cfg, overwrite) ==
  IF erroneousConfig(cfg) THEN Absent
  ELSE LET sorted == sortNodes(exportFlowSet(fset))
           moved == reorderTabs(sorted, cfg.tabsOrder)
       IN IF Len(cfg.tabsOrder) > 0 /\ ~overwrite
          THEN IF moved.threw THEN Threw ELSE Returned(moved.arr)
          ELSE Returned(sorted)

constructMonolithObjectFromFlowSet(fset, cfg, overwrite) ==
  IF erroneousConfig(cfg) THEN Absent
  ELSE LET sorted == sortNodes(exportFlowSet(fset))
           moved == reorderTabs(sorted, cfg.tabsOrder)
       IN IF Len(cfg.tabsOrder) > 0 /\ ~overwrite
          THEN IF moved.threw THEN Threw ELSE Returned(moved.arr)
          ELSE Returned(exportFlowSet(fset))

constructMonolithFileFromFlowSet(fset, cfg, disk, overwrite) ==
  LET made == constructMonolithObjectFromFlowSet(fset, cfg, overwrite)
      data == forgeDumpData(made, Json)
      returned == IF overwrite THEN setProp(cfg, "tabsOrder", flowKeys(fset)) ELSE cfg
  IN IF made = Threw THEN Came(Threw, disk, cfg)
     ELSE IF data = Threw THEN Came(Threw, disk, cfg)
     ELSE Came(Returned(returned),
               writeFileSync(disk, <<>>, cfg.monolithFilename, data),
               returned)

\* a string, which yaml.load gives back for the characters 'undefined'
AString == [kind |-> "string"]

\* JSON.parse(data) or yaml.load(data): the array, or null after the catch
\* (YAML reads JSON too)
parsed(text, fileFormat) ==
  IF toLowerCase(fileFormat) = Json
  THEN IF text.format = "json" THEN Returned(text.of) ELSE Absent
  ELSE IF text.format \in {"json", "yaml"} THEN Returned(text.of)
       ELSE AString

\* the files readdirSync lists in one folder, in order
filesIn(disk, folder) == SelectSeq(disk.files, LAMBDA f : f.folder = folder)

\* the two forEach loops of constructFlowSetFromTreeFiles over the files
\* listed: the flowConfig built, the calls made, and whether
\* flowObj.forEach threw (a string has no forEach)
RECURSIVE readFiles(_, _, _, _)
readFiles(acc, files, cfg, n) ==
  IF n = 0 THEN acc
  ELSE LET before == readFiles(acc, files, cfg, n - 1)
           file == files[n]
           asked == logCall(before.fs, "existsSync", <<file.folder, file.filename>>)
           read == logCall(asked, "readFileSync", <<file.folder, file.filename>>)
           flowObj == parsed(file.text, cfg.fileFormat)
       IN IF before.threw THEN before
          ELSE IF ~EndsWith(file.filename, cfg.fileFormat) THEN before
          ELSE IF flowObj = Absent THEN setProp(before, "fs", read)
          ELSE IF flowObj = AString
               THEN [flowConfig |-> before.flowConfig, fs |-> read, threw |-> TRUE]
          ELSE [flowConfig |-> before.flowConfig \o flowObj.value, fs |-> read,
                threw |-> FALSE]

\* the outer forEach over the first n folders; readdirSync throws on a
\* folder that is not there
RECURSIVE readFolders(_, _, _)
readFolders(acc, cfg, n) ==
  IF n = 0 THEN acc
  ELSE LET before == readFolders(acc, cfg, n - 1)
           listed == setProp(before, "fs",
                             logCall(before.fs, "readdirSync", TreeFolders[n]))
           files == filesIn(before.fs, TreeFolders[n])
       IN IF before.threw THEN before
          ELSE IF TreeFolders[n] \notin before.fs.dirs
               THEN setProp(listed, "threw", TRUE)
          ELSE readFiles(listed, files, cfg, Len(files))

\* the value returned is the array handed to flowParser.parseFlow
constructFlowSetFromTreeFiles(cfg, disk) ==
  IF erroneousConfig(cfg) THEN Came(Absent, disk, cfg)
  ELSE IF unexpectedFormat(cfg) THEN Came(Absent, disk, cfg)
  ELSE LET asked == logCall(disk, "existsSync", cfg.destinationFolder)
           read == readFolders([flowConfig |-> <<>>, fs |-> asked, threw |-> FALSE],
                               cfg, Len(TreeFolders))
           moved == reorderTabs(read.flowConfig, cfg.tabsOrder)
       IN IF cfg.destinationFolder \notin disk.dirs THEN Came(Absent, asked, cfg)
          ELSE IF read.threw \/ moved.threw THEN Came(Threw, read.fs, cfg)
          ELSE Came(Returned(moved.arr), read.fs, cfg)

----------------------------------------------------------------------------
(* SpecMonolith: constructMonolithObjectFromFlowSet on an exported flow    *)
(* set.                                                                    *)

\* ids that sort differently as strings and as numbers
MonolithIds == {<<"1">>, <<"1", "0">>, <<"2">>, <<"9">>}

MonolithFlowSets ==
  {[flows |-> <<>>, subflows |-> <<>>, configNodes |-> <<>>, exported |-> nodes] :
     nodes \in {[i \in DOMAIN ids |-> [id |-> ids[i]]] :
                  ids \in {s \in SeqsOf(MonolithIds, 0, MaxNodes) : Distinct(s)}}}

InitMonolith ==
  /\ pc = "ready"
  /\ flowSet \in MonolithFlowSets
  /\ config \in {FullConfig(Json, order) : order \in SeqsOf(MonolithIds, 0, MaxTabsOrder)}
                  \cup {deleteProp(FullConfig(Json, <<>>), "monolithFilename")}
  /\ overwriteTabsOrder \in BOOLEAN
  /\ result = Undefined
  /\ fs = NoFs
  /\ IdleNormalize /\ IdleReorder /\ IdleTree

CallConstructMonolithObjectFromFlowSet ==
  /\ pc = "ready"
  /\ result' = setProp(constructMonolithObjectFromFlowSet(flowSet, config,
                                                          overwriteTabsOrder),
                       "op", "constructMonolithObjectFromFlowSet")
  /\ pc' = "done"
  /\ UNCHANGED <<stringElement, normalized, flowSet, flowConfig, reference,
                 given, firstPass, contents, config, overwriteTabsOrder, fs>>

NextMonolith == CallConstructMonolithObjectFromFlowSet

SpecMonolith == InitMonolith /\ [][NextMonolith]_vars

\* s holds the nodes of t, in ascending lexicographic order of their ids
SortedById(s, t) ==
  /\ Len(s) = Len(t)
  /\ Range(s) = Range(t)
  /\ \A i \in 1..(Len(s) - 1) : StrLess(s[i].id, s[i + 1].id)

\* the nodes of t in ascending lexicographic order of their ids
IdSorted(t) == CHOOSE s \in [DOMAIN t -> Range(t)] : SortedById(s, t)

\* C9: with a valid config, constructMonolithObjectFromFlowSet gives the
\* exported nodes sorted by id in lexicographic order and then reordered by
\* reorderTabs with config.tabsOrder when tabsOrder is not empty and
\* overwriteTabsOrder is false (a throw of reorderTabs is the call's), and
\* the natural export order, unsorted, otherwise.
C9_MonolithOrder ==
  (pc = "done" /\ ~erroneousConfig(config)) =>
    IF config.tabsOrder # <<>> /\ ~overwriteTabsOrder
    THEN LET moved == reorderTabs(IdSorted(exportFlowSet(flowSet)), config.tabsOrder)
         IN IF moved.threw THEN result.kind = "threw"
            ELSE result.kind = "returned" /\ result.value = moved.arr
    ELSE result.kind = "returned" /\ result.value = exportFlowSet(flowSet)

\* "10" sorts before "9", the tabs are pinned, and the export was not sorted
C9_Witness ==
  /\ pc = "done" /\ ~erroneousConfig(config)
  /\ config.tabsOrder = <<<<"2">>>> /\ ~overwriteTabsOrder
  /\ exportFlowSet(flowSet) = <<[id |-> <<"9">>], [id |-> <<"2">>], [id |-> <<"1", "0">>]>>
  /\ result.kind = "returned"
  /\ result.value = <<[id |-> <<"2">>], [id |-> <<"1", "0">>], [id |-> <<"9">>]>>

\* the other branch: an unsorted export returned as it is
C9_WitnessNatural ==
  /\ pc = "done" /\ ~erroneousConfig(config)
  /\ overwriteTabsOrder /\ config.tabsOrder # <<>>
  /\ exportFlowSet(flowSet) = <<[id |-> <<"9">>], [id |-> <<"1", "0">>]>>
  /\ result.kind = "returned"
  /\ result.value = exportFlowSet(flowSet)

----------------------------------------------------------------------------
(* SpecConfig: one public operation called with a config, on a disk.       *)

ConfigKeys == {"fileFormat", "destinationFolder", "tabsOrder", "monolithFilename"}

\* file formats: the three recognized (in either case) and ones that only
\* start with json, contain yaml or end with yml, and ones that do neither
FileFormats ==
  {Json, Yaml, Yml, <<"J", "S", "O", "N">>, <<"Y", "a", "m", "l">>,
   <<"j", "s", "o", "n", "x">>, <<"x", "y", "a", "m", "l", "x">>,
   <<"x", "y", "m", "l">>, <<"x", "m", "l">>, <<"t", "x", "t">>}

\* a full config, and the same with one key missing
Configs ==
  LET full == {FullConfig(fmt, order) : fmt \in FileFormats,
                                         order \in {<<>>, <<FlowId(1)>>}}
  IN full \cup {deleteProp(c, k) : c \in full, k \in ConfigKeys}

\* two flow sets, each with one export order
ConfigFlowSets ==
  {CHOOSE fset \in BuiltFlowSets({q}) : TRUE :
     q \in {[flows |-> <<>>, subflows |-> <<>>, configNodes |-> <<>>],
            [flows |-> <<CHOOSE f \in TreeFlows(1) : "contents" \in DOMAIN f>>,
             subflows |-> <<>>,
             configNodes |-> <<CHOOSE c \in TreeConfigNodes(1) : TRUE>>]}}

EmptyDisk(strict) == [calls |-> <<>>, dirs |-> {}, files |-> <<>>, strictData |-> strict]

\* a disk: empty, or as constructTreeFilesFromFlowSet left it
Disks ==
  LET left == {constructTreeFilesFromFlowSet(
                 fset, FullConfig(fmt, <<>>), EmptyDisk(strict)).fs :
                   fset \in ConfigFlowSets,
                   fmt \in {Json, Yaml, <<"j", "s", "o", "n", "x">>},
                   strict \in BOOLEAN}
  IN {EmptyDisk(strict) : strict \in BOOLEAN}
       \cup {setProp(d, "calls", <<>>) : d \in left}

InitConfig ==
  /\ pc = "ready"
  /\ flowSet \in ConfigFlowSets
  /\ config \in Configs
  /\ overwriteTabsOrder \in BOOLEAN
  /\ fs \in Disks
  /\ given = config
  /\ result = Undefined
  /\ IdleNormalize /\ IdleTree
  /\ flowConfig = <<>> /\ reference = <<>> /\ firstPass = Undefined

\* the call came to this: its result, the disk and the config are kept
Finish(op, came) ==
  /\ result' = setProp(came.result, "op", op)
  /\ fs' = came.fs
  /\ config' = came.config
  /\ pc' = "done"
  /\ UNCHANGED <<stringElement, normalized, flowSet, flowConfig, reference,
                 given, firstPass, contents, overwriteTabsOrder>>

CallConstructTreeFilesFromFlowSet ==
  /\ pc = "ready"
  /\ Finish("constructTreeFilesFromFlowSet",
            constructTreeFilesFromFlowSet(flowSet, config, fs))

CallConstructMonolithObject ==
  /\ pc = "ready"
  /\ Finish("constructMonolithObjectFromFlowSet",
            Came(constructMonolithObjectFromFlowSet(flowSet, config,
                                                    overwriteTabsOrder),
                 fs, config))

CallConstructMonolithFileFromFlowSet ==
  /\ pc = "ready"
  /\ Finish("constructMonolithFileFromFlowSet",
            constructMonolithFileFromFlowSet(flowSet, config, fs,
                                             overwriteTabsOrder))

CallConstructFlowSetFromTreeFiles ==
  /\ pc = "ready"
  /\ Finish("constructFlowSetFromTreeFiles",
            constructFlowSetFromTreeFiles(config, fs))

NextConfig ==
  \/ CallConstructTreeFilesFromFlowSet
  \/ CallConstructMonolithObject
  \/ CallConstructMonolithFileFromFlowSet
  \/ CallConstructFlowSetFromTreeFiles

SpecConfig == InitConfig /\ [][NextConfig]_vars

\* the call changed nothing on disk and made no call into fs
NoFilesystemAccess == fs.calls = <<>>

MissingOneKey == \E k \in ConfigKeys : k \notin DOMAIN given

\* C6: for each public operation that takes a config, a config missing any
\* one of fileFormat, destinationFolder, tabsOrder or monolithFilename makes
\* it return an absent result, with no write and no directory created, and
\* with no exception reaching the caller.
C6_MissingKeyFailsFast ==
  (pc = "done" /\ MissingOneKey) =>
    /\ result.kind = "absent"
    /\ \A i \in DOMAIN fs.calls : fs.calls[i].fn \notin {"writeFileSync", "mkdirSync"}

\* C6 for the three operations that check the config themselves
C6_CheckedOperationsFailFast ==
  (pc = "done" /\ MissingOneKey
     /\ result.op # "constructMonolithFileFromFlowSet") =>
    (result.kind = "absent" /\ NoFilesystemAccess)

Recognized(fileFormat) == toLowerCase(fileFormat) \in {Json, Yaml, Yml}

\* C7: constructTreeFilesFromFlowSet and constructFlowSetFromTreeFiles
\* return an absent result before any filesystem access for every
\* fileFormat that is not, case-insensitively, exactly json, yaml or yml.
C7_UnrecognizedFormatFailsFast ==
  (pc = "done"
     /\ result.op \in {"constructTreeFilesFromFlowSet", "constructFlowSetFromTreeFiles"}
     /\ ~MissingOneKey
     /\ ~Recognized(given.fileFormat)) =>
    (result.kind = "absent" /\ NoFilesystemAccess)

\* C7 for formats that neither start with json, contain yaml nor end with yml
C7_UnrelatedFormatFailsFast ==
  (pc = "done"
     /\ result.op \in {"constructTreeFilesFromFlowSet", "constructFlowSetFromTreeFiles"}
     /\ ~MissingOneKey
     /\ given.fileFormat \in {<<"x", "m", "l">>, <<"t", "x", "t">>}) =>
    (result.kind = "absent" /\ NoFilesystemAccess)

====
